---- MODULE Spec2Model ----
(***************************************************************************)
(* A model of the two stateful pieces of the site's "mood" components:     *)
(*                                                                         *)
(*   - the rotation selector getRandomMoodImporter over allMoodImporters   *)
(*     (the mood index module), and                                        *)
(*   - the draggable flow diagram of Augest8.tsx: the node collection, the *)
(*     drag session kept in draggingRef, the pointer handlers, and the     *)
(*     link router buildAdaptivePath.                                      *)
(*                                                                         *)
(* Three specifications share the variables: SelectorSpec runs the         *)
(* selector, DiagramSpec runs the pointer handlers of a mounted diagram,   *)
(* PathSpec applies buildAdaptivePath to pairs of rectangles.  Each keeps  *)
(* the variables of the other two at their initial values.                 *)
(***************************************************************************)
EXTENDS Integers, Sequences, FiniteSets

VARIABLES
    \* ---- rotation selector ----
    allMoodImporters,   \* the catalog: a sequence of loader handles
    isFirstCall,        \* the module-level first-call flag
    pc,                 \* "idle": no call in progress; "loop": inside do/while
    current,            \* the `current` argument of the latest call
    newImporter,        \* the local of the do/while loop
    returned,           \* the value the latest completed call returned
    prevReturned,       \* the value the call before it returned
    calls,              \* number of invocations so far
    branch,             \* which return path the latest call took
    \* ---- draggable diagram ----
    initialNodes,       \* the canonical layout the component was built with
    links,              \* the links the component was built with
    nodes,              \* React state `nodes`: a sequence of FlowNode records
    draggingRef,        \* draggingRef.current: [id, dx, dy]
    status,             \* "mounted", or "crashed" once a render has thrown
    paths,              \* what the latest render produced for each link
    lastEvt,            \* the latest pointer event delivered: its kind and canvas point
    grab,               \* node position and canvas point when the session began
    pressed,            \* a pointer interaction that began on a node is in progress
    moves,              \* number of pointer-moves handled with a session active
    \* ---- link router on its own ----
    pFrom, pTo,         \* the two rectangles handed to buildAdaptivePath
    path                \* its result, or NoPath before the call

selVars  == <<allMoodImporters, isFirstCall, pc, current, newImporter,
              returned, prevReturned, calls, branch>>
diagVars == <<initialNodes, links, nodes, draggingRef, status, paths, lastEvt,
              grab, pressed, moves>>
pathVars == <<pFrom, pTo, path>>
vars     == <<selVars, diagVars, pathVars>>

Min(a, b) == IF a <= b THEN a ELSE b
Max(a, b) == IF a >= b THEN a ELSE b
Abs(a)    == IF a >= 0 THEN a ELSE -a

(***************************************************************************)
(* Bounds of the model.                                                    *)
(***************************************************************************)
MaxCatalog == 3
NumHandles == 3
MaxCalls == 3
NumNodes == 3
MaxMoves == 2
MaxGrid == 2
GridStep == 136

(***************************************************************************)
(*                         ROTATION SELECTOR                               *)
(***************************************************************************)

\* JavaScript's `undefined`: an omitted argument, an out-of-range array read.
Undefined == 0

Handles == 1 .. NumHandles

RECURSIVE SeqsUpTo(_, _)
SeqsUpTo(S, n) ==
    IF n = 0 THEN { <<>> }
    ELSE LET shorter == SeqsUpTo(S, n - 1)
         IN  shorter \cup { Append(s, x) : s \in { t \in shorter : Len(t) = n - 1 }, x \in S }

\* allMoodImporters[i] with JavaScript's 0-based index i: undefined off the ends.
At(a, i) == IF i >= 0 /\ i < Len(a) THEN a[i + 1] ELSE Undefined

\* line 30: allMoodImporters[allMoodImporters.length - 1]
FirstCallResultFirstEntry(a) == At(a, 0)
FirstCallResult(a) == At(a, Len(a) - 1)

\* line 34: allMoodImporters[0]
SingleEntryResult(a) == At(a, 0)

\* line 41: the do/while condition
DrawAgainNever(drawn, cur) == FALSE
DrawAgain(drawn, cur) == drawn = cur

\* line 29: the value written to isFirstCall by the first call
FlagAfterFirstCall == FALSE

InitSelector ==
    /\ allMoodImporters \in SeqsUpTo(Handles, MaxCatalog)
    /\ isFirstCall = TRUE
    /\ pc = "idle"
    /\ current = Undefined
    /\ newImporter = Undefined
    /\ returned = Undefined
    /\ prevReturned = Undefined
    /\ calls = 0
    /\ branch = "none"

IdleSelector ==
    /\ allMoodImporters = <<>>
    /\ isFirstCall = TRUE
    /\ pc = "idle"
    /\ current = Undefined
    /\ newImporter = Undefined
    /\ returned = Undefined
    /\ prevReturned = Undefined
    /\ calls = 0
    /\ branch = "none"

\* lines 28-31: the first call since module load
CallFirst(cur) ==
    /\ pc = "idle"
    /\ calls < MaxCalls
    /\ isFirstCall
    /\ isFirstCall' = FlagAfterFirstCall
    /\ current' = cur
    /\ newImporter' = Undefined
    /\ prevReturned' = returned
    /\ returned' = FirstCallResult(allMoodImporters)
    /\ calls' = calls + 1
    /\ branch' = "first"
    /\ UNCHANGED <<diagVars, pathVars, allMoodImporters, pc>>

\* lines 33-35: a later call on a catalog of at most one entry
CallSingle(cur) ==
    /\ pc = "idle"
    /\ calls < MaxCalls
    /\ ~isFirstCall
    /\ Len(allMoodImporters) <= 1
    /\ current' = cur
    /\ newImporter' = Undefined
    /\ prevReturned' = returned
    /\ returned' = SingleEntryResult(allMoodImporters)
    /\ calls' = calls + 1
    /\ branch' = "single"
    /\ UNCHANGED <<diagVars, pathVars, allMoodImporters, isFirstCall, pc>>

\* line 37: a later call on a longer catalog enters the do/while loop
CallLoop(cur) ==
    /\ pc = "idle"
    /\ calls < MaxCalls
    /\ ~isFirstCall
    /\ Len(allMoodImporters) > 1
    /\ current' = cur
    /\ newImporter' = Undefined
    /\ pc' = "loop"
    /\ calls' = calls + 1
    /\ branch' = "random"
    /\ UNCHANGED <<diagVars, pathVars, allMoodImporters, isFirstCall, returned, prevReturned>>

\* lines 38-41: one iteration that draws `current` again
DrawRejected(i) ==
    /\ pc = "loop"
    /\ newImporter' = At(allMoodImporters, i)
    /\ DrawAgain(newImporter', current)
    /\ UNCHANGED <<diagVars, pathVars, allMoodImporters, isFirstCall, pc, current, returned,
                   prevReturned, calls, branch>>

\* lines 38-43: one iteration whose draw leaves the loop and is returned
DrawAccepted(i) ==
    /\ pc = "loop"
    /\ newImporter' = At(allMoodImporters, i)
    /\ ~DrawAgain(newImporter', current)
    /\ prevReturned' = returned
    /\ returned' = newImporter'
    /\ pc' = "idle"
    /\ UNCHANGED <<diagVars, pathVars, allMoodImporters, isFirstCall, current, calls, branch>>

\* line 40: Math.floor(Math.random() * length): any index 0 .. length-1
RandomIndexesOnlyZero == {0}
RandomIndexes == 0 .. Len(allMoodImporters) - 1

\* lines 38-41: one iteration of the do/while that draws index i
DrawStep(i) == i \in RandomIndexes /\ (DrawRejected(i) \/ DrawAccepted(i))

\* line 27: the optional argument: a handle, or nothing
Arguments == Handles \cup {Undefined}

(***************************************************************************)
(*                       LINK ROUTER (buildAdaptivePath)                   *)
(*                                                                         *)
(* Node coordinates x, y, w, h are integers in canvas units.  The router   *)
(* halves w and h, so every coordinate it computes is kept in HALF units   *)
(* (twice its value): cx = 2x + w stands for x + w/2.  The control         *)
(* distance k = min(120, max(40, dist/3)) is in general irrational; it is  *)
(* kept by the exact integer 36*k^2 = clamp((2*dist)^2, 36*40^2, 36*120^2) *)
(* (field k36), and a control coordinate s + N*k is kept as the linear     *)
(* form [h |-> 2s, k |-> N].                                               *)
(***************************************************************************)

\* line 144: the clamp limits of the control distance
KMin == 40
KMax == 120

\* line 86
centerOf(n) == [cx |-> 2 * n.x + n.w, cy |-> 2 * n.y + n.h]

\* line 94
horizontalStrict(dx, dy) == Abs(dx) > Abs(dy)
horizontal(dx, dy) == Abs(dx) >= Abs(dy)

\* lines 143-144: 36*k^2 from d2 = (2*dist)^2
controlDistanceNoFloor(d2) == Min(36 * KMax * KMax, d2)
controlDistance(d2) == Min(36 * KMax * KMax, Max(36 * KMin * KMin, d2))

\* lines 89-151
buildAdaptivePath(from, to) ==
    LET fx == centerOf(from).cx
        fy == centerOf(from).cy
        tx == centerOf(to).cx
        ty == centerOf(to).cy
        dx == tx - fx
        dy == ty - fy
        hor == horizontal(dx, dy)
        \* source anchor, lines 97-117
        sx  == IF hor THEN (IF dx >= 0 THEN 2 * (from.x + from.w) ELSE 2 * from.x) ELSE fx
        sNx == IF hor THEN (IF dx >= 0 THEN 1 ELSE -1) ELSE 0
        sy  == IF hor THEN fy ELSE (IF dy >= 0 THEN 2 * (from.y + from.h) ELSE 2 * from.y)
        sNy == IF hor THEN 0 ELSE (IF dy >= 0 THEN 1 ELSE -1)
        \* target anchor, lines 120-140
        txa == IF hor THEN (IF dx >= 0 THEN 2 * to.x ELSE 2 * (to.x + to.w)) ELSE tx
        tNx == IF hor THEN (IF dx >= 0 THEN -1 ELSE 1) ELSE 0
        tya == IF hor THEN ty ELSE (IF dy >= 0 THEN 2 * to.y ELSE 2 * (to.y + to.h))
        tNy == IF hor THEN 0 ELSE (IF dy >= 0 THEN -1 ELSE 1)
        \* lines 143-148
        d2  == (txa - sx) * (txa - sx) + (tya - sy) * (tya - sy)
    IN  [ kind |-> "path",
          sx  |-> sx,  sy  |-> sy,
          c1x |-> [h |-> sx,  k |-> sNx], c1y |-> [h |-> sy,  k |-> sNy],
          c2x |-> [h |-> txa, k |-> tNx], c2y |-> [h |-> tya, k |-> tNy],
          txa |-> txa, tya |-> tya,
          k36 |-> controlDistance(d2) ]

NoPath == [kind |-> "none"]

\* Rectangles handed to the router on its own.
RectSizes == { <<136, 156>>, <<156, 176>>, <<5, 3>> }
RectCoords == { GridStep * i : i \in 0 .. MaxGrid }
Rects == { [id |-> "r", x |-> x, y |-> y, w |-> s[1], h |-> s[2]] :
             x \in RectCoords, y \in RectCoords, s \in RectSizes }

InitPath ==
    /\ pFrom \in Rects
    /\ pTo \in Rects
    /\ path = NoPath

IdlePath ==
    /\ pFrom = [id |-> "r", x |-> 0, y |-> 0, w |-> 136, h |-> 156]
    /\ pTo = [id |-> "r", x |-> 0, y |-> 0, w |-> 136, h |-> 156]
    /\ path = NoPath

\* one call of the router on the pair
ResolvePath ==
    /\ path = NoPath
    /\ path' = buildAdaptivePath(pFrom, pTo)
    /\ UNCHANGED <<selVars, diagVars, pFrom, pTo>>

(***************************************************************************)
(*                        DRAGGABLE DIAGRAM                                *)
(***************************************************************************)

\* lines 54-61: the canonical layout (id and rectangle of each node; titles,
\* icons and styling play no part in the handlers)
ShippedNodes == <<
    [id |-> "appRender",   x |-> 10,  y |-> 100, w |-> 156, h |-> 176],
    [id |-> "macBypass",   x |-> 20,  y |-> 350, w |-> 136, h |-> 156],
    [id |-> "afxdp",       x |-> 220, y |-> 350, w |-> 136, h |-> 156],
    [id |-> "decoder",     x |-> 420, y |-> 350, w |-> 136, h |-> 156],
    [id |-> "displayCtrl", x |-> 620, y |-> 350, w |-> 136, h |-> 156],
    [id |-> "uiOverlay",   x |-> 720, y |-> 550, w |-> 136, h |-> 156],
    [id |-> "composition", x |-> 820, y |-> 350, w |-> 136, h |-> 156],
    [id |-> "panel",       x |-> 810, y |-> 100, w |-> 156, h |-> 176] >>

\* lines 71-80
ShippedLinks == <<
    [from |-> "appRender",   to |-> "macBypass"],
    [from |-> "macBypass",   to |-> "afxdp"],
    [from |-> "afxdp",       to |-> "decoder"],
    [from |-> "decoder",     to |-> "displayCtrl"],
    [from |-> "displayCtrl", to |-> "composition"],
    [from |-> "uiOverlay",   to |-> "composition"],
    [from |-> "composition", to |-> "panel"] >>

\* line 46: view.width
vbWidth == 1024

\* JavaScript's null in draggingRef.current.id
Null == "null"

\* lines 163 and 190: { id: null, dx: 0, dy: 0 }
NullDrag == [id |-> Null, dx |-> 0, dy |-> 0]

IdsOf(ns) == { ns[i].id : i \in 1 .. Len(ns) }

\* The layouts and link lists a diagram is built with: the first n shipped
\* nodes, and the shipped links among the first m of them.  With m > n a link
\* names a node the layout does not hold.
LayoutOf(n) == SubSeq(ShippedNodes, 1, n)
LinksOf(m) ==
    LET ids == IdsOf(LayoutOf(m))
        keep(l) == l.from \in ids /\ l.to \in ids
    IN  SelectSeq(ShippedLinks, keep)

RECURSIVE MinOver(_, _, _)
MinOver(f, n, acc) == IF n = 0 THEN acc ELSE MinOver(f, n - 1, Min(acc, f[n]))
RECURSIVE MaxOver(_, _, _)
MaxOver(f, n, acc) == IF n = 0 THEN acc ELSE MaxOver(f, n - 1, Max(acc, f[n]))

\* lines 154-159 (every shipped x and w is even, so the halving is exact)
offsetXOf(layout) ==
    LET lefts  == [i \in 1 .. Len(layout) |-> layout[i].x]
        rights == [i \in 1 .. Len(layout) |-> layout[i].x + layout[i].w]
        minX == MinOver(lefts, Len(layout), lefts[1])
        maxX == MaxOver(rights, Len(layout), rights[1])
        contentWidth == maxX - minX
    IN  (vbWidth - contentWidth) \div 2 - minX

offsetX == offsetXOf(initialNodes)

\* The svg's screen transform as getScreenCTM gives it: a uniform scale a and a
\* translation (e, f); NoCTM when the svg or its transform is missing.
NoCTM == [a |-> 0, e |-> 0, f |-> 0]
CTMs == { NoCTM, [a |-> 2, e |-> 40, f |-> 0] }

\* Pointer events: client coordinates together with the transform in force
\* when the event is handled.  (clientX - e and clientY - f are multiples of a.)
ClientPoints == { [clientX |-> 120, clientY |-> 240], [clientX |-> 400, clientY |-> 640] }
PointerEvents == { [clientX |-> p.clientX, clientY |-> p.clientY, ctm |-> c] :
                     p \in ClientPoints, c \in CTMs }

\* lines 166-173
clientToSvg(evt) ==
    IF evt.ctm = NoCTM THEN [x |-> 0, y |-> 0]
    ELSE [x |-> (evt.clientX - evt.ctm.e) \div evt.ctm.a,
          y |-> (evt.clientY - evt.ctm.f) \div evt.ctm.a]

\* lines 247-248: nodes.find((n) => n.id === id): the index of the first match, 0 for none
RECURSIVE findFrom(_, _, _)
findFrom(ns, id, i) ==
    IF i > Len(ns) THEN 0
    ELSE IF ns[i].id = id THEN i ELSE findFrom(ns, id, i + 1)
find(ns, id) == findFrom(ns, id, 1)

\* lines 246-249: one link of the render; reading x of undefined throws
ThrownTypeError == [kind |-> "TypeError"]
renderLink(ns, link) ==
    IF find(ns, link.from) = 0 \/ find(ns, link.to) = 0
    THEN ThrownTypeError
    ELSE buildAdaptivePath(ns[find(ns, link.from)], ns[find(ns, link.to)])

\* lines 246-268: the links of one render
renderLinks(ns, ls) == [i \in 1 .. Len(ls) |-> renderLink(ns, ls[i])]
renderThrows(ps) == \E i \in 1 .. Len(ps) : ps[i] = ThrownTypeError

\* line 183
isDraggedAnyNode(n, drag) == TRUE
isDragged(n, drag) == n.id = drag.id

\* line 184
movedNodeKeepingOffset(n, drag, pt, off) == [n EXCEPT !.x = pt.x - drag.dx, !.y = pt.y - drag.dy]
movedNode(n, drag, pt, off) == [n EXCEPT !.x = (pt.x - off) - drag.dx, !.y = pt.y - drag.dy]

\* lines 181-187: the updater handed to setNodes
movedNodes(prev, drag, pt, off) ==
    [i \in 1 .. Len(prev) |->
        IF isDragged(prev[i], drag) THEN movedNode(prev[i], drag, pt, off) ELSE prev[i]]

\* lines 295-299
sessionFor(n, start, off) ==
    [id |-> n.id, dx |-> start.x - (n.x + off), dy |-> start.y - n.y]

\* line 190
clearedSessionKept(drag) == drag
clearedSession(drag) == NullDrag

NoGrab == [id |-> Null, x0 |-> 0, y0 |-> 0, px |-> 0, py |-> 0]
NoEvent == [kind |-> "none", x |-> 0, y |-> 0]

InitDiagram ==
    /\ \E n \in 1 .. NumNodes, m \in 1 .. NumNodes + 1 :
          /\ m \in {n, n + 1}
          /\ m <= Len(ShippedNodes)
          /\ initialNodes = LayoutOf(n)
          /\ links = LinksOf(m)
    /\ nodes = initialNodes
    /\ draggingRef = NullDrag
    /\ paths = renderLinks(nodes, links)
    /\ status = IF renderThrows(paths) THEN "crashed" ELSE "mounted"
    /\ lastEvt = NoEvent
    /\ grab = NoGrab
    /\ pressed = FALSE
    /\ moves = 0

IdleDiagram ==
    /\ initialNodes = LayoutOf(1)
    /\ links = <<>>
    /\ nodes = initialNodes
    /\ draggingRef = NullDrag
    /\ paths = <<>>
    /\ status = "mounted"
    /\ lastEvt = NoEvent
    /\ grab = NoGrab
    /\ pressed = FALSE
    /\ moves = 0

\* lines 293-300: pointer-down on the rendered node at index i
onPointerDown(i, evt) ==
    /\ status = "mounted"
    /\ i \in 1 .. Len(nodes)
    /\ LET start == clientToSvg(evt)
       IN  /\ draggingRef' = sessionFor(nodes[i], start, offsetX)
           /\ grab' = [id |-> nodes[i].id, x0 |-> nodes[i].x, y0 |-> nodes[i].y,
                       px |-> start.x, py |-> start.y]
           /\ lastEvt' = [kind |-> "down", x |-> start.x, y |-> start.y]
    /\ pressed' = TRUE
    /\ UNCHANGED <<selVars, pathVars, initialNodes, links, nodes, status, paths, moves>>

\* lines 176-178: pointer-move with no session
handleMoveIdle(evt) ==
    /\ status = "mounted"
    /\ draggingRef.id = Null
    /\ lastEvt' = [kind |-> "move", x |-> clientToSvg(evt).x, y |-> clientToSvg(evt).y]
    /\ UNCHANGED <<selVars, pathVars, initialNodes, links, nodes, draggingRef, status, paths, grab,
                   pressed, moves>>

\* lines 176-188: pointer-move with a session, and the render it causes
handleMoveDrag(evt) ==
    /\ status = "mounted"
    /\ draggingRef.id # Null
    /\ moves < MaxMoves
    /\ LET pt == clientToSvg(evt)
       IN  /\ nodes' = movedNodes(nodes, draggingRef, pt, offsetX)
           /\ lastEvt' = [kind |-> "move", x |-> pt.x, y |-> pt.y]
    /\ paths' = renderLinks(nodes', links)
    /\ status' = IF renderThrows(paths') THEN "crashed" ELSE "mounted"
    /\ moves' = moves + 1
    /\ UNCHANGED <<selVars, pathVars, initialNodes, links, draggingRef, grab, pressed>>

\* lines 189-191: pointer-up on the window
handleUp ==
    /\ status = "mounted"
    /\ draggingRef' = clearedSession(draggingRef)
    /\ grab' = IF draggingRef'.id = Null THEN NoGrab ELSE grab
    /\ lastEvt' = [kind |-> "up", x |-> 0, y |-> 0]
    /\ pressed' = FALSE
    /\ UNCHANGED <<selVars, pathVars, initialNodes, links, nodes, status, paths, moves>>

\* lines 192-193: only pointermove and pointerup are listened for, so a
\* pointer that is cancelled, or released where no pointer-up reaches the
\* window, runs no handler
pointerLost ==
    /\ status = "mounted"
    /\ lastEvt' = [kind |-> "lost", x |-> 0, y |-> 0]
    /\ pressed' = FALSE
    /\ UNCHANGED <<selVars, pathVars, initialNodes, links, nodes, draggingRef, status, paths, grab, moves>>

(***************************************************************************)
(*                          SPECIFICATIONS                                 *)
(***************************************************************************)

\* Unused components stay as constructed.
InitSel  == InitSelector /\ IdleDiagram /\ IdlePath
InitDiag == IdleSelector /\ InitDiagram /\ IdlePath
InitRect == IdleSelector /\ IdleDiagram /\ InitPath

NextSelector ==
    \/ \E cur \in Arguments : CallFirst(cur)
    \/ \E cur \in Arguments : CallSingle(cur)
    \/ \E cur \in Arguments : CallLoop(cur)
    \/ \E i \in RandomIndexes : DrawRejected(i)
    \/ \E i \in RandomIndexes : DrawAccepted(i)
SelectorSpec == InitSel /\ [][NextSelector]_vars

\* Fair random draws: while the loop runs, no index of the catalog goes
\* undrawn for ever.  (A draw that repeats the value already in newImporter
\* leaves the state as it is.)
FairDraws == \A i \in 0 .. MaxCatalog - 1 : WF_vars(DrawStep(i))
FairSelectorSpec == InitSel /\ [][NextSelector]_vars /\ FairDraws

NextDiagram ==
    \/ \E i \in 1 .. NumNodes, evt \in PointerEvents : onPointerDown(i, evt)
    \/ \E evt \in PointerEvents : handleMoveIdle(evt)
    \/ \E evt \in PointerEvents : handleMoveDrag(evt)
    \/ handleUp
    \/ pointerLost
DiagramSpec == InitDiag /\ [][NextDiagram]_vars

NextPath == ResolvePath
PathSpec == InitRect /\ [][NextPath]_vars

(***************************************************************************)
(*                             PROPERTIES                                  *)
(***************************************************************************)

LastEntry(a) == a[Len(a)]

\* C1 (SelectorSpec): on a catalog of two or more entries the first call
\* returns the last entry whatever `current` was; the flag is set exactly
\* until the first call and clear ever after; and the first-call rule is the
\* return path of the first call and of no later call.
C1_FirstCallReturnsLast ==
    Len(allMoodImporters) >= 2 =>
        /\ isFirstCall = (calls = 0)
        /\ (branch = "first") = (calls = 1)
        /\ calls = 1 => (pc = "idle" /\ returned = LastEntry(allMoodImporters))

\* The first call, made with `current` equal to the last entry of a catalog
\* whose first and last entries differ, has returned.
C1_Witness ==
    /\ Len(allMoodImporters) >= 2
    /\ allMoodImporters[1] # LastEntry(allMoodImporters)
    /\ calls = 1
    /\ pc = "idle"
    /\ current = LastEntry(allMoodImporters)
    /\ returned = LastEntry(allMoodImporters)
    /\ ~isFirstCall

\* C2 (SelectorSpec): on a catalog of two or more entries every call after
\* the first returns a handle different from its `current` argument; so when
\* the call passed the previous result as `current`, its result differs from
\* the previous result.
C2_NeverReturnsCurrent ==
    (Len(allMoodImporters) >= 2 /\ calls >= 2 /\ pc = "idle") =>
        /\ returned # current
        /\ current = prevReturned => returned # prevReturned

\* A third call that passed the second call's result as `current` has returned
\* from the loop.
C2_Witness ==
    /\ Len(allMoodImporters) >= 2
    /\ calls = 3
    /\ pc = "idle"
    /\ branch = "random"
    /\ current = prevReturned
    /\ \E i \in 1 .. Len(allMoodImporters) : allMoodImporters[i] = current

\* C3 (SelectorSpec): an empty catalog is rejected: no call on it completes by
\* handing a value back to the caller.
C3_EmptyCatalogRejected ==
    ~ (allMoodImporters = <<>> /\ calls >= 1 /\ pc = "idle")

\* C4 (DiagramSpec): a step changes a node only if it is a pointer-move and
\* the node is the one the session holds, and then only its x and y: the
\* identifiers, their order, and every w and h stay as they were.
C4_MoveChangesOnlyDraggedPosition ==
    [][ /\ Len(nodes') = Len(nodes)
        /\ \A i \in 1 .. Len(nodes) :
              /\ nodes'[i].id = nodes[i].id
              /\ nodes'[i].w = nodes[i].w
              /\ nodes'[i].h = nodes[i].h
              /\ nodes'[i] # nodes[i] =>
                    (lastEvt'.kind = "move" /\ draggingRef.id = nodes[i].id) ]_vars

\* A pointer-move of a session has moved the grabbed node and another node is
\* where the layout put it.
C4_Witness ==
    /\ lastEvt.kind = "move"
    /\ draggingRef.id # Null
    /\ \E i, j \in 1 .. Len(nodes) :
          /\ i # j
          /\ nodes[i].id = draggingRef.id
          /\ nodes[i].x # initialNodes[i].x
          /\ nodes[i].y # initialNodes[i].y
          /\ nodes[j] = initialNodes[j]

\* C5 (DiagramSpec): after a pointer-up the session is the cleared session,
\* whatever it was before; and while the session is clear no step changes a
\* node, and only a pointer-down ends that.
C5_EndDragClearsAndMovesAreNoOps ==
    [][ /\ lastEvt'.kind = "up" => draggingRef' = NullDrag
        /\ draggingRef.id = Null =>
              /\ nodes' = nodes
              /\ draggingRef'.id # Null => lastEvt'.kind = "down" ]_vars

\* A pointer-move has been handled after the pointer-up that ended a session
\* in which a node was dragged.
C5_Witness ==
    /\ lastEvt.kind = "move"
    /\ draggingRef = NullDrag
    /\ nodes # initialNodes

\* C6 (DiagramSpec): once the pointer interaction has ended, by a pointer-up
\* or by the pointer being lost, the session is clear.
C6_EveryEndingClearsSession ==
    ~pressed => draggingRef.id = Null

\* C7 (DiagramSpec): after a pointer-move of a session the grabbed node's
\* top-left is its top-left at pointer-down plus the pointer's displacement
\* since pointer-down, and the recorded offset is the pointer's offset from
\* the node at pointer-down in canvas space with the centering removed.
C7_DragFollowsPointer ==
    (draggingRef.id # Null /\ lastEvt.kind \in {"down", "move"}) =>
        LET n == nodes[find(nodes, draggingRef.id)]
        IN  /\ grab.id = draggingRef.id
            /\ draggingRef.dx = (grab.px - offsetX) - grab.x0
            /\ draggingRef.dy = grab.py - grab.y0
            /\ n.x = grab.x0 + lastEvt.x - grab.px
            /\ n.y = grab.y0 + lastEvt.y - grab.py

\* The second pointer-move of a session, at a point other than the grab point,
\* has been handled.
C7_Witness ==
    /\ draggingRef.id # Null
    /\ lastEvt.kind = "move"
    /\ moves = 2
    /\ lastEvt.x # grab.px
    /\ lastEvt.y # grab.py
    /\ nodes[find(nodes, draggingRef.id)].x # grab.x0

\* The sides of the claims, in half units.
SideMid(r, side) ==
    CASE side = "right"  -> <<2 * (r.x + r.w), 2 * r.y + r.h>>
      [] side = "left"   -> <<2 * r.x,         2 * r.y + r.h>>
      [] side = "bottom" -> <<2 * r.x + r.w,   2 * (r.y + r.h)>>
      [] side = "top"    -> <<2 * r.x + r.w,   2 * r.y>>
OutwardNormal(side) ==
    CASE side = "right"  -> <<1, 0>>
      [] side = "left"   -> <<-1, 0>>
      [] side = "bottom" -> <<0, 1>>
      [] side = "top"    -> <<0, -1>>
CentreDx(A, B) == (2 * B.x + B.w) - (2 * A.x + A.w)
CentreDy(A, B) == (2 * B.y + B.h) - (2 * A.y + A.h)
IsHorizontal(A, B) == Abs(CentreDx(A, B)) >= Abs(CentreDy(A, B))
ExitSide(A, B) ==
    IF IsHorizontal(A, B)
    THEN (IF CentreDx(A, B) >= 0 THEN "right" ELSE "left")
    ELSE (IF CentreDy(A, B) >= 0 THEN "bottom" ELSE "top")
EntrySide(A, B) ==
    IF IsHorizontal(A, B)
    THEN (IF CentreDx(A, B) >= 0 THEN "left" ELSE "right")
    ELSE (IF CentreDy(A, B) >= 0 THEN "top" ELSE "bottom")

\* C8 (PathSpec): the path leaves A at the midpoint of the side the claim
\* names and reaches B at the midpoint of the side the claim names:
\* right/left when |dx| >= |dy| (by the sign of dx, ties and coincident
\* centres included), bottom/top otherwise (by the sign of dy).
C8_ExitAndEntrySides ==
    path.kind = "path" =>
        /\ <<path.sx, path.sy>> = SideMid(pFrom, ExitSide(pFrom, pTo))
        /\ <<path.txa, path.tya>> = SideMid(pTo, EntrySide(pFrom, pTo))
        /\ (CentreDx(pFrom, pTo) = 0 /\ CentreDy(pFrom, pTo) = 0) =>
              /\ <<path.sx, path.sy>> = SideMid(pFrom, "right")
              /\ <<path.txa, path.tya>> = SideMid(pTo, "left")

\* A path has been resolved for a tie |dx| = |dy| with B below and to the
\* left of A.
C8_Witness ==
    /\ path.kind = "path"
    /\ CentreDx(pFrom, pTo) < 0
    /\ CentreDy(pFrom, pTo) = - CentreDx(pFrom, pTo)

\* C9 (PathSpec): 40 <= k <= 120 with k the exit-to-entry distance over 3
\* clamped to that range (as 36*k^2 against the squared distance in half
\* units), and each control point is its endpoint moved by k along the
\* outward normal of its side.
C9_ControlPoints ==
    path.kind = "path" =>
        LET exit  == SideMid(pFrom, ExitSide(pFrom, pTo))
            entry == SideMid(pTo, EntrySide(pFrom, pTo))
            nA == OutwardNormal(ExitSide(pFrom, pTo))
            nB == OutwardNormal(EntrySide(pFrom, pTo))
            d2 == (entry[1] - exit[1]) * (entry[1] - exit[1])
                  + (entry[2] - exit[2]) * (entry[2] - exit[2])
        IN  /\ path.k36 >= 36 * 40 * 40
            /\ path.k36 <= 36 * 120 * 120
            /\ path.k36 = IF d2 < 36 * 40 * 40 THEN 36 * 40 * 40
                          ELSE IF d2 > 36 * 120 * 120 THEN 36 * 120 * 120
                          ELSE d2
            /\ path.c1x = [h |-> exit[1], k |-> nA[1]]
            /\ path.c1y = [h |-> exit[2], k |-> nA[2]]
            /\ path.c2x = [h |-> entry[1], k |-> nB[1]]
            /\ path.c2y = [h |-> entry[2], k |-> nB[2]]
            /\ Abs(path.c1x.k) + Abs(path.c1y.k) = 1
            /\ Abs(path.c2x.k) + Abs(path.c2y.k) = 1

\* A path has been resolved whose exit and entry points coincide.
C9_Witness ==
    /\ path.kind = "path"
    /\ pFrom # pTo
    /\ path.sx = path.txa
    /\ path.sy = path.tya

\* C10 (DiagramSpec): a reference to a node the collection does not hold is a
\* no-op or a skip: the render has not thrown, a link with a missing endpoint
\* has no path, and a pointer-move of a session on a missing node changes no
\* node.
C10_UnknownNodeIsSkipped ==
    /\ status # "crashed"
    /\ \A i \in 1 .. Len(links) :
          (find(nodes, links[i].from) = 0 \/ find(nodes, links[i].to) = 0)
              => paths[i] = NoPath
    /\ \A evt \in PointerEvents :
          movedNodes(nodes, [id |-> "ghost", dx |-> 0, dy |-> 0],
                     clientToSvg(evt), offsetX) = nodes

Entries(a) == { a[i] : i \in 1 .. Len(a) }

====
